---- MODULE Spec2Model ----
(***************************************************************************)
(* A model of src/model.py: the SegNet encoder/decoder network and its two *)
(* Monte-Carlo-dropout variants.                                           *)
(*                                                                         *)
(* Two levels are modelled.                                                *)
(*   - The network level (Spec, SpecMode): construction of the three       *)
(*     classes and SegNet.forward, one step per statement.  A tensor is    *)
(*     its shape plus what determines its values: the input it came from,  *)
(*     the normalisation statistics every block applied, and the dropout   *)
(*     masks drawn on the way.  Convolution weights are fixed and equal    *)
(*     for all calls, so two tensors with the same record are equal.       *)
(*   - The value level (SpecPair): one encoder block and one decoder block *)
(*     on small integer feature maps, with MaxPool2d's argmax offsets and  *)
(*     MaxUnpool2d's scatter computed cell by cell.                        *)
(***************************************************************************)
EXTENDS Integers, Sequences, FiniteSets, TLC

VARIABLES
    net,        \* the constructed network: class, channels, child modules
    training,   \* nn.Module.training of the network and all its children
    tracked,    \* per block, per BatchNorm2d unit: num_batches_tracked
    pc,         \* position inside SegNet.forward
    arg,        \* the argument of the running forward call, and its mode
    x,          \* local x of forward
    dim,        \* locals dim0..dim4
    indices,    \* locals indices0..indices4
    out,        \* the value forward returned
    npass,      \* number of forward calls started
    calls,      \* the block calls of the running forward, in order
    seen,       \* outputs of earlier forward calls, per input and mode
    fresh,      \* inputs whose evaluation output is newer than any training call
    pblock,     \* pair test: the encoder block (plain or Bayesian)
    ptraining,  \* pair test: mode
    ppc,        \* pair test: position
    pfeat,      \* pair test: the feature map self.layers(x) returned
    px,         \* pair test: tensor returned by the encoder
    pindices,   \* pair test: index set returned by the encoder
    psize,      \* pair test: output_size given to the decoder
    py          \* pair test: what max_unpool returned

netvars   == <<net, training, tracked, pc, arg, x, dim, indices, out, npass, calls>>
ghostvars == <<seen, fresh>>
pairvars  == <<pblock, ptraining, ppc, pfeat, px, pindices, psize, py>>
vars      == <<netvars, ghostvars, pairvars>>

\* ---- bounds ----
MaxCh    == 2     \* in_channels, out_channels and input channels range over 1..MaxCh
MaxBatch == 2     \* batch sizes 1..MaxBatch
MaxDim   == 65    \* heights and widths up to MaxDim
MaxCells == 9     \* pair test: feature maps of at most MaxCells cells
MaxVal   == 1     \* pair test: feature values 0..MaxVal
MaxPass  == 1     \* forward calls per behaviour (Spec)
MaxModePass == 2  \* forward calls per behaviour (SpecMode)
NumMasks == 2     \* distinct dropout draws
NumSrc   == 2     \* distinct input contents (SpecMode)

None == "None"
NoSize == <<>>    \* output_size=None
Max(S) == CHOOSE m \in S : \A v \in S : v <= m

\* ---- construction ----

\* _make_layer: Conv2d(in, out, 3, padding=1), BatchNorm2d(out), ReLU
make_layer(in_channels, out_channels) ==
    [conv |-> <<in_channels, out_channels>>, bn |-> out_channels]

\* _EncBlock.__init__
EncBlock(in_channels, out_channels, num_layers) ==
    [kind    |-> "encoder",
     layers  |-> [i \in 1..num_layers |->
                    IF i = 1 THEN make_layer(in_channels, out_channels)
                             ELSE make_layer(out_channels, out_channels)],
     dropout |-> FALSE]

\* _BayesEncBlock.__init__
BayesEncBlock(in_channels, out_channels, num_layers) ==
    [EncBlock(in_channels, out_channels, num_layers) EXCEPT !.dropout = TRUE]

\* a decoder block whose last unit keeps in_channels
DecBlockNoProjection(in_channels, out_channels, num_layers) ==
    [kind    |-> "decoder",
     layers  |-> [i \in 1..num_layers |-> make_layer(in_channels, in_channels)],
     dropout |-> FALSE]

\* _DecBlock.__init__
DecBlock(in_channels, out_channels, num_layers) ==
    [kind    |-> "decoder",
     layers  |-> [i \in 1..num_layers |->
                    IF i < num_layers THEN make_layer(in_channels, in_channels)
                                      ELSE make_layer(in_channels, out_channels)],
     dropout |-> FALSE]

\* _BayesDecBlock.__init__
BayesDecBlock(in_channels, out_channels, num_layers) ==
    [DecBlock(in_channels, out_channels, num_layers) EXCEPT !.dropout = TRUE]

Stages == {"encoder", "decoder"} \X (0..4)
Enc(k) == <<"encoder", k>>
Dec(k) == <<"decoder", k>>

\* nn.Module.__setattr__ with a Module value: the child registered under the
\* name is replaced.
setattr(self, name, blk) == [self EXCEPT !.modules[name] = blk]

\* SegNet.__init__
SegNet(in_channels, out_channels) ==
    [cls          |-> "SegNet",
     in_channels  |-> in_channels,
     out_channels |-> out_channels,
     modules      |->
        (Enc(0) :> EncBlock(in_channels, 64, 2)) @@
        (Enc(1) :> EncBlock(64, 128, 2)) @@
        (Enc(2) :> EncBlock(128, 256, 3)) @@
        (Enc(3) :> EncBlock(256, 512, 3)) @@
        (Enc(4) :> EncBlock(512, 512, 3)) @@
        (Dec(4) :> DecBlock(512, 512, 3)) @@
        (Dec(3) :> DecBlock(512, 256, 3)) @@
        (Dec(2) :> DecBlock(256, 128, 3)) @@
        (Dec(1) :> DecBlock(128, 64, 2)) @@
        (Dec(0) :> DecBlock(64, 64, 1)),
     conv         |-> <<64, out_channels>>]

\* BayesEncoderSegNet.__init__
BayesEncoderSegNet(in_channels, out_channels) ==
    LET s0 == [SegNet(in_channels, out_channels) EXCEPT !.cls = "BayesEncoderSegNet"]
        s1 == setattr(s0, Enc(0), BayesEncBlock(in_channels, 64, 2))
        s2 == setattr(s1, Enc(1), BayesEncBlock(64, 128, 2))
        s3 == setattr(s2, Enc(2), BayesEncBlock(128, 256, 3))
        s4 == setattr(s3, Enc(3), BayesEncBlock(256, 512, 3))
    IN  setattr(s4, Enc(4), BayesEncBlock(512, 512, 3))

\* a centre variant that assigns decoder1 where decoder2 is meant
BayesCenterSegNetTypo(in_channels, out_channels) ==
    LET s0 == [SegNet(in_channels, out_channels) EXCEPT !.cls = "BayesCenterSegNet"]
        s1 == setattr(s0, Enc(2), BayesEncBlock(128, 256, 3))
        s2 == setattr(s1, Enc(3), BayesEncBlock(256, 512, 3))
        s3 == setattr(s2, Enc(4), BayesEncBlock(512, 512, 3))
        s4 == setattr(s3, Dec(4), BayesDecBlock(512, 512, 3))
        s5 == setattr(s4, Dec(3), BayesDecBlock(512, 256, 3))
    IN  setattr(s5, Dec(1), BayesDecBlock(128, 64, 2))

\* BayesCenterSegNet.__init__
BayesCenterSegNet(in_channels, out_channels) ==
    LET s0 == [SegNet(in_channels, out_channels) EXCEPT !.cls = "BayesCenterSegNet"]
        s1 == setattr(s0, Enc(2), BayesEncBlock(128, 256, 3))
        s2 == setattr(s1, Enc(3), BayesEncBlock(256, 512, 3))
        s3 == setattr(s2, Enc(4), BayesEncBlock(512, 512, 3))
        s4 == setattr(s3, Dec(4), BayesDecBlock(512, 512, 3))
        s5 == setattr(s4, Dec(3), BayesDecBlock(512, 256, 3))
    IN  setattr(s5, Dec(2), BayesDecBlock(256, 128, 3))

Classes == {"SegNet", "BayesEncoderSegNet", "BayesCenterSegNet"}

Construct(cls, in_channels, out_channels) ==
    CASE cls = "SegNet" -> SegNet(in_channels, out_channels)
      [] cls = "BayesEncoderSegNet" -> BayesEncoderSegNet(in_channels, out_channels)
      [] cls = "BayesCenterSegNet" -> BayesCenterSegNet(in_channels, out_channels)

InCh(blk)  == blk.layers[1].conv[1]
OutCh(blk) == blk.layers[Len(blk.layers)].conv[2]

\* ---- the units, on tensor records ----
\* A tensor: shape <<B, C, H, W>>; src, the input content it was computed from;
\* norm, per block applied so far the statistics its BatchNorm2d units used;
\* drop, the dropout masks drawn so far.

\* normalisation with the running statistics in both modes
NormTagRunning(mode, trk) == trk

\* nn.BatchNorm2d statistics of a block's units: "batch" in training mode (the
\* statistics of the tensor itself), the units' running statistics in
\* evaluation mode.  Running statistics change exactly when
\* num_batches_tracked does, so the counters identify them within a behaviour.
NormTag(mode, trk) == IF mode THEN <<"batch">> ELSE trk

\* a unit whose BatchNorm2d updates its statistics in both modes
UnitForwardAlwaysTracks(layer, i, st, mode) ==
    IF st.err THEN st
    ELSE IF st.shape[2] # layer.conv[1] THEN [st EXCEPT !.err = TRUE]
    ELSE [err   |-> mode /\ st.shape[1] * st.shape[3] * st.shape[4] <= 1,
          shape |-> [st.shape EXCEPT ![2] = layer.conv[2]],
          trk   |-> [st.trk EXCEPT ![i] = @ + 1]]

\* One Conv2d + BatchNorm2d + ReLU unit, the i-th of a block.  st is
\* [err, shape, trk].  Conv2d raises on a channel mismatch; BatchNorm2d in
\* training mode increments num_batches_tracked, then raises when a channel
\* has a single value, else updates its running statistics.
UnitForward(layer, i, st, mode) ==
    IF st.err THEN st
    ELSE IF st.shape[2] # layer.conv[1] THEN [st EXCEPT !.err = TRUE]
    ELSE LET s == [st.shape EXCEPT ![2] = layer.conv[2]]
         IN  IF mode
             THEN [err   |-> s[1] * s[3] * s[4] <= 1,
                   shape |-> s,
                   trk   |-> [st.trk EXCEPT ![i] = @ + 1]]
             ELSE [err |-> FALSE, shape |-> s, trk |-> st.trk]

RECURSIVE RunUnits(_, _, _, _)
RunUnits(layers, i, st, mode) ==
    IF i > Len(layers) THEN st
    ELSE RunUnits(layers, i + 1, UnitForward(layers[i], i, st, mode), mode)

\* the tensor t after a block's units, which ended in r
AfterUnits(t, mode, trk, r) ==
    [err |-> r.err,
     x   |-> [t EXCEPT !.shape = r.shape, !.norm = Append(@, NormTag(mode, trk))],
     trk |-> r.trk]

\* self.layers(x): nn.Sequential over the block's units
LayersForward(blk, t, mode, trk) ==
    AfterUnits(t, mode, trk,
               RunUnits(blk.layers, 1, [err |-> FALSE, shape |-> t.shape, trk |-> trk], mode))

\* pooling with padding=1
PoolOutPadded(d) == d \div 2 + 1

\* MaxPool2d(kernel_size=2, stride=2) output size of one dimension
PoolOut(d) == d \div 2

\* MaxUnpool2d(kernel_size=2, stride=2) default output size of one dimension
UnpoolDefault(n) == (n - 1) * 2 + 2

\* torch's check of a requested output size against the default one
UnpoolSizeOk(n, d) == UnpoolDefault(n) - 2 < d /\ d < UnpoolDefault(n) + 2

\* dropout that draws in both modes
Dropout2dAlways(t, mode, m) == [t EXCEPT !.drop = Append(@, m)]

\* nn.Dropout2d(0.5): identity in evaluation mode, a draw m in training mode
Dropout2d(t, mode, m) == IF mode THEN [t EXCEPT !.drop = Append(@, m)] ELSE t

Masks == 1..NumMasks

\* self.max_pool(x) on shapes: the pooled shape, and an index set of that
\* shape whose offsets address the plane that was pooled; raises when nothing
\* is left to pool.  l is what self.layers returned.
MaxPool2d(l) ==
    [err     |-> l.err \/ PoolOut(l.x.shape[3]) = 0 \/ PoolOut(l.x.shape[4]) = 0,
     x       |-> [l.x EXCEPT !.shape[3] = PoolOut(@), !.shape[4] = PoolOut(@)],
     indices |-> [shape |-> [l.x.shape EXCEPT ![3] = PoolOut(@), ![4] = PoolOut(@)],
                  plane |-> <<l.x.shape[3], l.x.shape[4]>>],
     trk     |-> l.trk]

\* _EncBlock.forward: [err, x, indices, trk]
EncBlockForward(blk, t, mode, trk) == MaxPool2d(LayersForward(blk, t, mode, trk))

\* _BayesEncBlock.forward
BayesEncBlockForward(blk, t, mode, trk, m) ==
    [EncBlockForward(blk, t, mode, trk) EXCEPT !.x = Dropout2d(@, mode, m)]

\* max_unpool2d on shapes, to an oh x ow output
UnpoolShape(t, ix, oh, ow) ==
    [err |-> \/ ~UnpoolSizeOk(t.shape[3], oh)
             \/ ~UnpoolSizeOk(t.shape[4], ow)
             \/ ix.shape # t.shape,
     x   |-> [t EXCEPT !.shape[3] = oh, !.shape[4] = ow]]

\* self.max_unpool(x, indices, output_size): [err, x].  Of a four-element
\* output_size the last two elements are the spatial size.
MaxUnpool2d(t, ix, output_size) ==
    IF output_size = NoSize
    THEN UnpoolShape(t, ix, UnpoolDefault(t.shape[3]), UnpoolDefault(t.shape[4]))
    ELSE UnpoolShape(t, ix, output_size[3], output_size[4])

\* self.layers(x) of a decoder, after its unpooling returned u
DecLayers(blk, u, mode, trk) ==
    IF u.err THEN [err |-> TRUE, x |-> u.x, trk |-> trk]
    ELSE LayersForward(blk, u.x, mode, trk)

\* _DecBlock.forward: [err, x, trk]
DecBlockForward(blk, t, ix, output_size, mode, trk) ==
    DecLayers(blk, MaxUnpool2d(t, ix, output_size), mode, trk)

\* _BayesDecBlock.forward
BayesDecBlockForward(blk, t, ix, output_size, mode, trk, m) ==
    [DecBlockForward(blk, t, ix, output_size, mode, trk) EXCEPT
        !.x = Dropout2d(@, mode, m)]

\* self.conv(x), self.softmax(x): [err, x]
ClassifierForward(conv, t) ==
    [err |-> t.shape[2] # conv[1],
     x   |-> [t EXCEPT !.shape[2] = conv[2]]]

\* ---- SegNet.forward, statement by statement ----

ZeroTracked(n) == [s \in Stages |-> [i \in 1..Len(n.modules[s].layers) |-> 0]]
NoLocals == [k \in 0..4 |-> None]

\* decoder k given the indices of the stage mirrored at the centre
DecArgsMirrored(k, ixs, dims) == [indices |-> ixs[4 - k], output_size |-> dims[k]]

\* decoder k given the shape recorded one stage further down
DecArgsShifted(k, ixs, dims) ==
    [indices |-> ixs[k], output_size |-> dims[IF k < 4 THEN k + 1 ELSE k]]

\* what decoder k is called with: indicesK and dimK
DecArgs(k, ixs, dims) == [indices |-> ixs[k], output_size |-> dims[k]]

\* where forward goes after encoder k / decoder k
AfterEnc(k) == IF k < 4 THEN Enc(k + 1) ELSE Dec(4)
AfterDec(k) == IF k > 0 THEN Dec(k - 1) ELSE <<"conv", 0>>

InputKey(a) == <<a.src, a.shape>>

\* model(x): forward is entered with an input tensor
Call(inputs, maxpass) ==
    /\ pc[1] = "idle"
    /\ npass < maxpass
    /\ \E a \in inputs :
        /\ arg' = [src |-> a.src, shape |-> a.shape, training |-> training]
        /\ x' = [shape |-> a.shape, src |-> a.src, norm |-> <<>>, drop |-> <<>>]
    /\ pc' = Enc(0)
    /\ npass' = npass + 1
    /\ UNCHANGED <<net, training, tracked, dim, indices, out, calls>>

\* encoder k returned r, or raised
EncoderReturns(k, r) ==
    /\ tracked' = [tracked EXCEPT ![pc] = r.trk]
    /\ IF r.err
       THEN /\ pc' = <<"error", 0>>
            /\ UNCHANGED <<x, indices>>
       ELSE /\ pc' = AfterEnc(k)
            /\ x' = r.x
            /\ indices' = [indices EXCEPT ![k] =
                             [ix |-> r.indices, pass |-> npass, stage |-> k]]

\* self.encoderK(x): the block registered under the name is called
CallEncoder(blk, m) ==
    IF blk.dropout
    THEN BayesEncBlockForward(blk, x, training, tracked[pc], m)
    ELSE EncBlockForward(blk, x, training, tracked[pc])

\* dimK = x.size(); x, indicesK = self.encoderK(x)
Encode(masks) ==
    /\ pc[1] = "encoder"
    /\ dim' = [dim EXCEPT ![pc[2]] = [size |-> x.shape, pass |-> npass, stage |-> pc[2]]]
    /\ calls' = Append(calls, [stage |-> pc, input |-> x.shape])
    /\ \E m \in masks : EncoderReturns(pc[2], CallEncoder(net.modules[pc], m))
    /\ UNCHANGED <<net, training, arg, out, npass>>

\* decoder k returned r, or raised
DecoderReturns(k, r) ==
    /\ tracked' = [tracked EXCEPT ![pc] = r.trk]
    /\ IF r.err
       THEN /\ pc' = <<"error", 0>>
            /\ UNCHANGED x
       ELSE /\ pc' = AfterDec(k)
            /\ x' = r.x

\* self.decoderK(x, indices, output_size): the block registered under the
\* name is called
CallDecoder(blk, a, m) ==
    IF blk.dropout
    THEN BayesDecBlockForward(blk, x, a.indices.ix, a.output_size.size,
                              training, tracked[pc], m)
    ELSE DecBlockForward(blk, x, a.indices.ix, a.output_size.size,
                         training, tracked[pc])

\* x = self.decoderK(x, indicesK, dimK)
Decode(masks) ==
    /\ pc[1] = "decoder"
    /\ calls' = Append(calls, [stage |-> pc, input |-> x.shape,
                               indices |-> DecArgs(pc[2], indices, dim).indices,
                               output_size |-> DecArgs(pc[2], indices, dim).output_size])
    /\ \E m \in masks :
         DecoderReturns(pc[2], CallDecoder(net.modules[pc], DecArgs(pc[2], indices, dim), m))
    /\ UNCHANGED <<net, training, arg, dim, indices, out, npass>>

\* x = self.conv(x); x = self.softmax(x); return x
Classify ==
    /\ pc[1] = "conv"
    /\ IF ClassifierForward(net.conv, x).err
       THEN /\ pc' = <<"error", 0>>
            /\ UNCHANGED <<x, out>>
       ELSE /\ pc' = <<"done", 0>>
            /\ x' = ClassifierForward(net.conv, x).x
            /\ out' = <<ClassifierForward(net.conv, x).x>>
    /\ UNCHANGED <<net, training, tracked, arg, dim, indices, npass, calls>>

\* The call is over (returned, or raised): its locals, and the tensors only
\* they referred to, are gone.
Return ==
    /\ pc[1] \in {"done", "error"}
    /\ pc' = <<"idle", 0>>
    /\ x' = None
    /\ arg' = None
    /\ dim' = NoLocals
    /\ indices' = NoLocals
    /\ out' = <<>>
    /\ calls' = <<>>
    /\ UNCHANGED <<net, training, tracked, npass>>

\* model.train() / model.eval(), between forward calls
SetMode ==
    /\ pc[1] = "idle"
    /\ training' = ~training
    /\ UNCHANGED <<net, tracked, pc, arg, x, dim, indices, out, npass, calls>>

\* ---- bookkeeping of earlier outputs ----
\* When a call is over its output is remembered under its input and mode.
\* Outputs with dropout drawn are compared by no property and are not kept.
\* fresh holds the inputs whose remembered evaluation output was computed
\* after the last training-mode call.
Remember ==
    /\ seen' = IF pc[1] = "done" /\ out[1].drop = <<>>
               THEN [seen EXCEPT ![InputKey(arg)][arg.training] = out]
               ELSE seen
    /\ fresh' = IF arg.training THEN {}
                ELSE IF pc[1] = "done" THEN fresh \cup {InputKey(arg)}
                ELSE fresh

\* ---- inputs ----
\* Sizes below 32 (an encoder's pooling has nothing left to pool) and every
\* size from 32 up: 32..63 holds every pattern of odd and even sizes on the
\* way down.
Dims == {1, 2, 16, 31} \cup (32..MaxDim)
ShapeInputs ==
    {[src |-> 1, shape |-> <<b, c, hw[1], hw[2]>>] :
        b \in 1..MaxBatch, c \in 1..MaxCh,
        hw \in {d \in Dims \X Dims : d[1] = d[2] \/ d[2] = 32}}
\* Inputs of one shape with different contents, and one input that encoder 4
\* cannot pool.
ModeInputs ==
    {[src |-> s, shape |-> <<1, 1, 32, 32>>] : s \in 1..NumSrc}
        \cup {[src |-> 1, shape |-> <<1, 1, 16, 32>>]}
NoneSeen(inputs) == [k \in {InputKey(a) : a \in inputs} |-> [m \in BOOLEAN |-> <<>>]]

PairIdle ==
    /\ pblock = None /\ ptraining = TRUE /\ ppc = "off" /\ pfeat = None
    /\ px = None /\ pindices = None /\ psize = NoSize /\ py = None

InitNet(channels) ==
    /\ \E c \in Classes, i \in channels :
          net = Construct(c, i, Max(channels) + 1 - i)
    /\ training = TRUE
    /\ tracked = ZeroTracked(net)
    /\ pc = <<"idle", 0>>
    /\ arg = None
    /\ x = None
    /\ dim = NoLocals
    /\ indices = NoLocals
    /\ out = <<>>
    /\ npass = 0
    /\ calls = <<>>

Init ==
    /\ InitNet(1..MaxCh)
    /\ seen = <<>> /\ fresh = {}
    /\ PairIdle

Next ==
    \/ Call(ShapeInputs, MaxPass) /\ UNCHANGED <<ghostvars, pairvars>>
    \/ Encode({1}) /\ UNCHANGED <<ghostvars, pairvars>>
    \/ Decode({1}) /\ UNCHANGED <<ghostvars, pairvars>>
    \/ Classify /\ UNCHANGED <<ghostvars, pairvars>>
    \/ Return /\ UNCHANGED <<ghostvars, pairvars>>
    \/ SetMode /\ UNCHANGED <<ghostvars, pairvars>>

Spec == Init /\ [][Next]_vars

InitMode ==
    /\ InitNet({1})
    /\ seen = NoneSeen(ModeInputs) /\ fresh = {}
    /\ PairIdle

NextMode ==
    \/ Call(ModeInputs, MaxModePass) /\ UNCHANGED <<ghostvars, pairvars>>
    \/ Encode(Masks) /\ UNCHANGED <<ghostvars, pairvars>>
    \/ Decode(Masks) /\ UNCHANGED <<ghostvars, pairvars>>
    \/ Classify /\ UNCHANGED <<ghostvars, pairvars>>
    \/ Return /\ Remember /\ UNCHANGED pairvars
    \/ SetMode /\ UNCHANGED <<ghostvars, pairvars>>

SpecMode == InitMode /\ [][NextMode]_vars

\* ---- one encoder block and one decoder block on feature maps ----
\* A feature map is one channel of one sample: [H, W, v], v the flattened
\* H x W plane, the cell in row r and column c (both from 0) at offset r*W + c.

Plane(H, W) == 0..(H * W - 1)

\* the offsets, in an H x W plane, of the cells of the 2x2 window of pooled
\* cell n (of a plane w wide), in the order max_pool2d scans them
Window(n, w, W) ==
    << (2 * (n \div w)) * W + 2 * (n % w),
       (2 * (n \div w)) * W + 2 * (n % w) + 1,
       (2 * (n \div w) + 1) * W + 2 * (n % w),
       (2 * (n \div w) + 1) * W + 2 * (n % w) + 1 >>

\* max_pool2d's scan of one window: a cell replaces the best so far when its
\* value is greater
RECURSIVE ArgMax(_, _, _, _)
ArgMax(v, win, n, best) ==
    IF n > Len(win) THEN best
    ELSE ArgMax(v, win, n + 1, IF v[win[n]] > v[best] THEN win[n] ELSE best)

\* the pooled tensor and the index set, from the offset at[n] of the maximum
\* of each window n
Pooled(f, h, w, at) ==
    [err     |-> h = 0 \/ w = 0,
     x       |-> [H |-> h, W |-> w, v |-> [n \in Plane(h, w) |-> f.v[at[n]]]],
     indices |-> [H |-> h, W |-> w, v |-> at]]

\* nn.MaxPool2d(kernel_size=2, stride=2, return_indices=True): [err, x, indices]
max_pool2d(f) ==
    Pooled(f, PoolOut(f.H), PoolOut(f.W),
           [n \in Plane(PoolOut(f.H), PoolOut(f.W)) |->
               ArgMax(f.v, Window(n, PoolOut(f.W), f.W), 2,
                      Window(n, PoolOut(f.W), f.W)[1])])

\* nn.Dropout2d(0.5) on one channel: in training mode the channel is zeroed
\* or scaled by 1/(1-p) = 2; identity in evaluation mode
dropout2d(t, mode, keep) ==
    IF ~mode THEN t
    ELSE [t EXCEPT !.v = [n \in DOMAIN t.v |-> IF keep THEN 2 * t.v[n] ELSE 0]]

\* max_unpool2d's scatter, pooled cell by pooled cell from cell n on: plane is
\* the flattened output, filled with zeros at first
RECURSIVE Scatter(_, _, _, _)
Scatter(t, ix, n, plane) ==
    IF n >= t.H * t.W THEN plane
    ELSE Scatter(t, ix, n + 1, [plane EXCEPT ![ix.v[n]] = t.v[n]])

\* max_unpool2d to an oh x ow output: the shapes of input and indices must
\* agree and every offset must lie in the output plane
UnpoolTo(t, ix, oh, ow) ==
    IF \/ ~UnpoolSizeOk(t.H, oh)
       \/ ~UnpoolSizeOk(t.W, ow)
       \/ ix.H # t.H \/ ix.W # t.W
       \/ \E n \in DOMAIN ix.v : ix.v[n] >= oh * ow
    THEN [err |-> TRUE, x |-> t]
    ELSE [err |-> FALSE,
          x   |-> [H |-> oh, W |-> ow,
                   v |-> Scatter(t, ix, 0, [o \in Plane(oh, ow) |-> 0])]]

\* nn.MaxUnpool2d(kernel_size=2, stride=2)(x, indices, output_size): [err, x]
max_unpool2d(t, ix, output_size) ==
    IF output_size = NoSize
    THEN UnpoolTo(t, ix, UnpoolDefault(t.H), UnpoolDefault(t.W))
    ELSE UnpoolTo(t, ix, output_size[1], output_size[2])

\* _EncBlock.forward after self.layers: pooling
EncBlockPool(f) == max_pool2d(f)

\* a Bayesian encoder that drops before it pools
BayesEncBlockPoolEarly(f, mode, keep) == EncBlockPool(dropout2d(f, mode, keep))

\* _BayesEncBlock.forward after self.layers: pooling, then dropout
BayesEncBlockPool(f, mode, keep) ==
    [EncBlockPool(f) EXCEPT !.x = dropout2d(@, mode, keep)]

\* a decoder that does not pass output_size on
DecBlockUnpoolDefault(t, ix, output_size) == max_unpool2d(t, ix, NoSize)

\* _DecBlock.forward before self.layers: unpooling
DecBlockUnpool(t, ix, output_size) == max_unpool2d(t, ix, output_size)

PairShapes ==
    {s \in (1..MaxCells) \X (1..MaxCells) :
        s[1] * s[2] <= MaxCells /\ s[1] + s[2] <= 6}
FeatureMaps ==
    UNION {{[H |-> s[1], W |-> s[2], v |-> f] : f \in [Plane(s[1], s[2]) -> 0..MaxVal]} :
           s \in PairShapes}

\* the output sizes the decoder is tried with: none, the size before pooling,
\* and one larger
PairSizes(f) == {NoSize, <<f.H, f.W>>, <<f.H + 1, f.W + 1>>}

\* the test's input: what the encoder's self.layers(x) returns, any map of
\* non-negative values (ReLU is the last unit of the stack)
PairInput ==
    /\ ppc = "idle"
    /\ \E f \in FeatureMaps : pfeat' = f
    /\ ppc' = "start"
    /\ UNCHANGED <<pblock, ptraining, px, pindices, psize, py>>

\* the encoder returned r, or raised
Encoded(r) ==
    IF r.err
    THEN /\ ppc' = "error"
         /\ UNCHANGED <<px, pindices>>
    ELSE /\ ppc' = "encoded"
         /\ px' = r.x
         /\ pindices' = r.indices

\* x, indices = encoder(x)
PairEncode ==
    /\ ppc = "start"
    /\ \E keep \in BOOLEAN :
        Encoded(IF pblock.dropout THEN BayesEncBlockPool(pfeat, ptraining, keep)
                                  ELSE EncBlockPool(pfeat))
    /\ UNCHANGED <<pblock, ptraining, pfeat, psize, py>>

\* the decoder's unpooling returned r, or raised
Decoded(r) ==
    IF r.err
    THEN /\ ppc' = "error"
         /\ UNCHANGED py
    ELSE /\ ppc' = "decoded"
         /\ py' = r.x

\* y = decoder(x, indices, output_size)
PairDecode ==
    /\ ppc = "encoded"
    /\ \E os \in PairSizes(pfeat) :
        /\ psize' = os
        /\ Decoded(DecBlockUnpool(px, pindices, os))
    /\ UNCHANGED <<pblock, ptraining, pfeat, px, pindices>>

InitPair ==
    /\ net = Construct("SegNet", 1, 1)
    /\ training = TRUE
    /\ tracked = ZeroTracked(net)
    /\ pc = <<"idle", 0>>
    /\ arg = None /\ x = None /\ dim = NoLocals /\ indices = NoLocals
    /\ out = <<>> /\ npass = 0 /\ calls = <<>>
    /\ seen = <<>> /\ fresh = {}
    /\ pblock \in {EncBlock(1, 1, 1), BayesEncBlock(1, 1, 1)}
    /\ ptraining \in BOOLEAN
    /\ ppc = "idle"
    /\ pfeat = None
    /\ px = None /\ pindices = None /\ psize = NoSize /\ py = None

NextPair ==
    \/ PairInput /\ UNCHANGED <<netvars, ghostvars>>
    \/ PairEncode /\ UNCHANGED <<netvars, ghostvars>>
    \/ PairDecode /\ UNCHANGED <<netvars, ghostvars>>

SpecPair == InitPair /\ [][NextPair]_vars

\* ---- properties ----

Running == pc[1] # "idle"
\* the call's input has the channel count the network was built for
ValidInput == Running /\ arg.shape[2] = net.in_channels
H0 == arg.shape[3]
W0 == arg.shape[4]
EncOrder == [k \in 1..5 |-> Enc(k - 1)]
DecOrder == [k \in 1..5 |-> Dec(5 - k)]
CallOrder == EncOrder \o DecOrder

\* C1: for every batch size, positive in_channels and out_channels, and H and
\* W divisible by 32, forward raises nothing and returns a tensor of shape
\* [B, out_channels, H, W]; the five encoders halve the size five times, to
\* H/32 x W/32 at the bottleneck.
C1_ShapeRestored ==
    (ValidInput /\ H0 % 32 = 0 /\ W0 % 32 = 0) =>
        /\ pc[1] # "error"
        /\ pc[1] = "encoder" => /\ x.shape[3] * (2 ^ pc[2]) = H0
                                /\ x.shape[4] * (2 ^ pc[2]) = W0
        /\ pc = Dec(4) => x.shape[3] * 32 = H0 /\ x.shape[4] * 32 = W0
        /\ pc[1] = "done" =>
              out[1].shape = <<arg.shape[1], net.out_channels, H0, W0>>

C1_Witness ==
    /\ pc[1] = "done"
    /\ net.cls = "BayesCenterSegNet"
    /\ out[1].shape = <<2, net.out_channels, 64, 32>>

\* C2: in every forward pass the blocks are called in the order encoder
\* 0,1,2,3,4, decoder 4,3,2,1,0, and decoder k is called with the index set
\* encoder k returned in this pass and with the shape of the tensor encoder k
\* was called with in this pass.
C2_Pairing ==
    /\ Len(calls) <= 10
    /\ pc[1] \in {"conv", "done"} => Len(calls) = 10
    /\ \A i \in 1..Len(calls) :
        /\ calls[i].stage = CallOrder[i]
        /\ i > 5 =>
            /\ calls[i].indices.stage = calls[i].stage[2]
            /\ calls[i].indices.pass = npass
            /\ calls[i].output_size.stage = calls[i].stage[2]
            /\ calls[i].output_size.pass = npass
            /\ calls[i].output_size.size = calls[calls[i].stage[2] + 1].input

C2_Witness == pc[1] = "done" /\ npass = 2 /\ Len(calls) = 10

\* C3 as stated: the base SegNet returns the same output for the same input
\* in training mode and in evaluation mode, whatever calls came before.
C3_SameAcrossModes ==
    (Running /\ net.cls = "SegNet" /\ pc[1] = "done") =>
        \A m \in BOOLEAN : seen[InputKey(arg)][m] \in {<<>>, out}

\* C3 amended: the base SegNet returns the same output for the same input in
\* two training-mode calls, whatever calls came in between, and in two
\* evaluation-mode calls with no training-mode call in between.
C3_SameWithinMode ==
    (Running /\ net.cls = "SegNet" /\ pc[1] = "done") =>
        /\ arg.training => seen[InputKey(arg)][TRUE] \in {<<>>, out}
        /\ (~arg.training /\ InputKey(arg) \in fresh) =>
              seen[InputKey(arg)][FALSE] = out

C3_Witness ==
    /\ Running /\ net.cls = "SegNet" /\ pc[1] = "done"
    /\ arg.training
    /\ seen[InputKey(arg)][TRUE] = out
    /\ tracked[Enc(0)][1] = 2

\* C4: in evaluation mode no block draws dropout, and a forward call returns
\* the output an earlier evaluation-mode call returned for the same input, in
\* all three networks.
C4_EvalDeterministic ==
    (Running /\ ~arg.training) =>
        /\ pc[1] # "error" => x.drop = <<>>
        /\ (pc[1] = "done" /\ InputKey(arg) \in fresh) =>
              seen[InputKey(arg)][FALSE] = out

C4_Witness ==
    /\ Running /\ ~arg.training /\ pc[1] = "done"
    /\ net.cls = "BayesCenterSegNet"
    /\ InputKey(arg) \in fresh
    /\ seen[InputKey(arg)][FALSE] = out

BayesStages(n) == {s \in Stages : n.modules[s].dropout}
StagesRun == {calls[i].stage : i \in 1..Len(calls)}

\* C5: the blocks with dropout are exactly encoder0..4 in BayesEncoderSegNet
\* and exactly encoder2..4 and decoder4..2 in BayesCenterSegNet; every block
\* has the kind, channels and layer count of the base network's block of that
\* name; the network has exactly the five encoders and five decoders; and a
\* training-mode forward has drawn one dropout mask per such block it ran.
C5_Variants ==
    /\ DOMAIN net.modules = Stages
    /\ \A s \in Stages :
        /\ net.modules[s].kind = s[1]
        /\ net.modules[s].layers =
              SegNet(net.in_channels, net.out_channels).modules[s].layers
    /\ net.cls = "SegNet" => BayesStages(net) = {}
    /\ net.cls = "BayesEncoderSegNet" => BayesStages(net) = {Enc(k) : k \in 0..4}
    /\ net.cls = "BayesCenterSegNet" =>
          BayesStages(net) = {Enc(2), Enc(3), Enc(4), Dec(4), Dec(3), Dec(2)}
    /\ (Running /\ pc[1] # "error") =>
          Len(x.drop) = IF arg.training
                        THEN Cardinality(StagesRun \cap BayesStages(net))
                        ELSE 0
    /\ (Running /\ pc[1] = "done" /\ arg.training) =>
          Len(out[1].drop) = CASE net.cls = "SegNet" -> 0
                               [] net.cls = "BayesEncoderSegNet" -> 5
                               [] net.cls = "BayesCenterSegNet" -> 6

C5_Witness ==
    /\ Running /\ pc[1] = "done" /\ arg.training
    /\ net.cls = "BayesCenterSegNet"
    /\ Len(out[1].drop) = 6

EncWidths == <<64, 128, 256, 512, 512>>
DecWidths == <<64, 64, 128, 256, 512>>

\* C6: every stage is handed a tensor with the stage's in_channels: the
\* encoders' widths are 64,128,256,512,512 and the decoders' 512,256,128,64,64,
\* each stage's out_channels is the next stage's in_channels, the classifier
\* takes 64, and the index set decoder k is given has the channel count of
\* the tensor it unpools.
C6_Channels ==
    /\ InCh(net.modules[Enc(0)]) = net.in_channels
    /\ \A k \in 0..4 : OutCh(net.modules[Enc(k)]) = EncWidths[k + 1]
    /\ \A k \in 0..4 : OutCh(net.modules[Dec(k)]) = DecWidths[k + 1]
    /\ \A k \in 0..3 : OutCh(net.modules[Enc(k)]) = InCh(net.modules[Enc(k + 1)])
    /\ OutCh(net.modules[Enc(4)]) = InCh(net.modules[Dec(4)])
    /\ \A k \in 1..4 : OutCh(net.modules[Dec(k)]) = InCh(net.modules[Dec(k - 1)])
    /\ OutCh(net.modules[Dec(0)]) = net.conv[1]
    /\ net.conv = <<64, net.out_channels>>
    /\ ValidInput =>
        /\ pc[1] \in {"encoder", "decoder"} => x.shape[2] = InCh(net.modules[pc])
        /\ pc[1] = "decoder" => indices[pc[2]].ix.shape[2] = x.shape[2]
        /\ pc[1] = "conv" => x.shape[2] = 64
        /\ pc[1] = "done" => out[1].shape[2] = net.out_channels

C6_Witness ==
    /\ ValidInput /\ pc = Dec(0)
    /\ net.cls = "BayesEncoderSegNet"
    /\ net.in_channels = 2
    /\ x.shape[2] = 64 /\ indices[0].ix.shape[2] = 64

\* the maximum of the window of pooled cell n of the pair test's feature map
WindowOf(n) == Window(n, pfeat.W \div 2, pfeat.W)
WindowSet(n) == {WindowOf(n)[i] : i \in 1..4}
WindowMax(n) == Max({pfeat.v[o] : o \in WindowSet(n)})
DecodedToInputSize == ppc = "decoded" /\ psize = <<pfeat.H, pfeat.W>>

\* C7: given the encoder's pooled output, its index set and the pre-pooling
\* shape, the decoder's unpooling does not raise and returns a map of the
\* pre-pooling shape in which every 2x2 window holds the pooled value at one
\* cell where the window's maximum was, and zero at its other cells, and all
\* cells outside the windows hold zero.
C7_Unpool ==
    /\ (ppc = "error" /\ pfeat.H >= 2 /\ pfeat.W >= 2) => psize # <<pfeat.H, pfeat.W>>
    /\ DecodedToInputSize =>
        /\ py.H = pfeat.H /\ py.W = pfeat.W
        /\ DOMAIN py.v = Plane(pfeat.H, pfeat.W)
        /\ \A n \in DOMAIN px.v :
             \E o \in WindowSet(n) :
                /\ pfeat.v[o] = WindowMax(n)
                /\ pindices.v[n] = o
                /\ py.v[o] = px.v[n]
                /\ \A o2 \in WindowSet(n) \ {o} : py.v[o2] = 0
        /\ \A o \in DOMAIN py.v :
             (\A n \in DOMAIN px.v : o \notin WindowSet(n)) => py.v[o] = 0

C7_Witness ==
    /\ DecodedToInputSize
    /\ pfeat.H = 3 /\ pfeat.W = 3
    /\ pfeat.v[4] = 1 /\ pfeat.v[0] = 0 /\ pfeat.v[1] = 0 /\ pfeat.v[3] = 0
    /\ py.v[4] = 1 /\ py.v[8] = 0

\* C8 as stated: no forward step changes any state held by a block's units.
C8_Stateless == [][tracked' = tracked /\ net' = net]_vars

\* C8 amended: a forward step in evaluation mode changes no state held by a
\* block's units; in training mode the only state a step changes is
\* num_batches_tracked (with the running statistics) of the BatchNorm2d units
\* of the block that ran, each grown by one when the block returns; forward
\* never changes the network's modules.
C8_OnlyTrainingTracks ==
    [][/\ net' = net
       /\ pc[1] \notin {"encoder", "decoder"} => tracked' = tracked
       /\ pc[1] \in {"encoder", "decoder"} =>
            /\ \A s \in Stages \ {pc} : tracked'[s] = tracked[s]
            /\ ~training => tracked' = tracked
            /\ training =>
                 \A i \in DOMAIN tracked[pc] :
                    /\ tracked'[pc][i] \in {tracked[pc][i], tracked[pc][i] + 1}
                    /\ pc'[1] # "error" => tracked'[pc][i] = tracked[pc][i] + 1]_vars

C8_Witness ==
    /\ Running /\ pc[1] = "done" /\ ~arg.training
    /\ \A s \in Stages : \A i \in DOMAIN tracked[s] : tracked[s][i] = 1

\* C9: for every input with H >= 32 and W >= 32, divisible by 32 or not,
\* forward raises nothing and returns the input's spatial size; each decoder
\* is asked for a size of 2n or 2n+1 where n is the size of its input.
C9_NoShapeError ==
    (ValidInput /\ H0 >= 32 /\ W0 >= 32) =>
        /\ pc[1] # "error"
        /\ pc[1] = "decoder" =>
            /\ dim[pc[2]].size[3] \in {2 * x.shape[3], 2 * x.shape[3] + 1}
            /\ dim[pc[2]].size[4] \in {2 * x.shape[4], 2 * x.shape[4] + 1}
        /\ pc[1] = "done" => out[1].shape[3] = H0 /\ out[1].shape[4] = W0

C9_Witness ==
    /\ ValidInput /\ pc[1] = "done"
    /\ out[1].shape[3] = 63 /\ out[1].shape[4] = 63

\* C10: a Bayesian encoder returns the index set the plain encoder returns
\* for the same input, in both modes and for every dropout draw; dropout
\* changes only the pooled values, to zero or to twice the maximum.
C10_IndicesUntouched ==
    (ppc \in {"encoded", "decoded"} /\ pblock.dropout) =>
        /\ pindices = EncBlockPool(pfeat).indices
        /\ \A n \in DOMAIN px.v :
             px.v[n] \in IF ptraining THEN {0, 2 * pfeat.v[pindices.v[n]]}
                         ELSE {pfeat.v[pindices.v[n]]}

C10_Witness ==
    /\ ppc = "encoded" /\ pblock.dropout /\ ptraining
    /\ \E n \in DOMAIN px.v :
          /\ px.v[n] = 0
          /\ pfeat.v[pindices.v[n]] = 1
          /\ pindices.v[n] # WindowOf(n)[1]

====
